---- MODULE Spec2Model ----
(***************************************************************************)
(* Staged generate-and-validate pipeline of ProjectKRR.                    *)
(*                                                                         *)
(* programs/generator2.py and programs/optimized-generator.py each keep a  *)
(* module-global fact store `facts` and a module-global `seed`.            *)
(* run_generator resets both and calls solve_step once per stage; every    *)
(* solve_step builds a clingo Control from the seed and the joined facts   *)
(* and solves with a model callback (collect_model or print_model).        *)
(* run_solver / run_solver_without_pipes filter the store by predicate     *)
(* name and solve the validation program once.                             *)
(*                                                                         *)
(* Text is modelled as sequences of one-character strings, so that         *)
(* str(atom) + ".", "\n".join, startswith and split are computed the way   *)
(* Python computes them.  The clingo engine is the environment: a solve    *)
(* calls the model callback between zero and MaxModels times, each time    *)
(* with one of the candidate models of the grounded step.                  *)
(***************************************************************************)
EXTENDS Integers, Sequences, FiniteSets, TLC

VARIABLES
    module,     \* which program is loaded: "generator2" or "optimized-generator"
    facts,      \* global `facts`: list of fact strings
    seed,       \* global `seed`: None or an integer
    pc,         \* "idle" | "ready" (about to call solve_step) | "solving"
    stage,      \* index of the solve_step statement of run_generator being executed
    printArg,   \* the print argument of the current run_generator call
    dims,       \* <<height, width, depth>> of the current run_generator call
    calls,      \* history of the solve_step invocations of the current run
    runs,       \* history: number of run_generator calls so far
    seedDraws,  \* history: number of secrets.randbelow calls so far
    stale,      \* history: the store was non-empty when the current run began
    lastOp,     \* history: the top-level function entered last
    filtered,   \* local `filtered` of the last validation pass
    solverOut,  \* text printed by the last validation pass
    threads,    \* concurrent run_generator calls: position and history of each
    args,       \* benchmark.py: the parsed command line
    bpc,        \* benchmark.py: position in main / progressive_triples
    h,          \* progressive_triples: local h
    w,          \* progressive_triples: local w
    d,          \* progressive_triples: local d
    count,      \* progressive_triples: local count
    triples,    \* the triples yielded so far (main: the list `triples`)
    ti,         \* main: index of the current triple of the outer loop
    run_idx,    \* main: run_idx of the inner loop
    rows,       \* rows appended to args.outcsv by this sweep
    solverRows, \* rows appended to bench_results_solver.csv by this sweep
    factsIter,  \* history: the iteration whose generation wrote `facts` last
    validated   \* history: the last validation pass of main

pipelineVars == <<module, facts, seed, pc, stage, printArg, dims, calls, runs,
                  seedDraws, stale, lastOp, filtered, solverOut>>

benchVars == <<args, bpc, h, w, d, count, triples, ti, run_idx, rows, solverRows,
               factsIter, validated>>

vars == <<module, facts, seed, pc, stage, printArg, dims, calls, runs, seedDraws,
          stale, lastOp, filtered, solverOut, threads, args, bpc, h, w, d, count,
          triples, ti, run_idx, rows, solverRows, factsIter, validated>>

-----------------------------------------------------------------------------
(* Bounds of the model *)

MaxModels == 2      \* most model callbacks the engine makes during one solve
MaxRuns == 2        \* most run_generator calls in one behaviour

-----------------------------------------------------------------------------
(* Python values and text *)

None == -1          \* the value None of `seed` before the first run

\* 2**31 - 1, the largest value secrets.randbelow(2**31) returns
SeedMax == 2147483647

c_open  == "("
c_close == ")"
c_comma == ","
c_dot   == "."
c_nl    == "\n"
c_sp    == " "

Digits == <<"0", "1", "2", "3", "4", "5", "6", "7", "8", "9">>

RECURSIVE IntStr(_)
IntStr(n) ==
    IF n < 10 THEN <<Digits[n + 1]>>
    ELSE IntStr(n \div 10) \o <<Digits[(n % 10) + 1]>>

RECURSIVE Join(_, _)
Join(sep, xs) ==
    IF Len(xs) = 0 THEN <<>>
    ELSE IF Len(xs) = 1 THEN xs[1]
    ELSE xs[1] \o sep \o Join(sep, Tail(xs))

RECURSIVE SplitFrom(_, _, _)
SplitFrom(s, sep, cur) ==
    IF Len(s) = 0 THEN <<cur>>
    ELSE IF Head(s) = sep THEN <<cur>> \o SplitFrom(Tail(s), sep, <<>>)
    ELSE SplitFrom(Tail(s), sep, Append(cur, Head(s)))

Split(s, sep) == SplitFrom(s, sep, <<>>)

StartsWith(s, p) == Len(s) >= Len(p) /\ SubSeq(s, 1, Len(p)) = p

RECURSIVE Flatten(_)
Flatten(xss) == IF Len(xss) = 0 THEN <<>> ELSE Head(xss) \o Flatten(Tail(xss))

-----------------------------------------------------------------------------
(* clingo symbols and models *)

Atom(n, as) == [name |-> n, arguments |-> as]

ArgStr(as) == Join(<<c_comma>>, [k \in 1..Len(as) |-> IntStr(as[k])])

SymbolStr(a) ==
    IF Len(a.arguments) = 0 THEN a.name
    ELSE a.name \o <<c_open>> \o ArgStr(a.arguments) \o <<c_close>>

ModelStr(m) == Join(<<c_sp>>, [k \in 1..Len(m) |-> SymbolStr(m[k])])

n_width          == <<"w","i","d","t","h">>
n_height         == <<"h","e","i","g","h","t">>
n_depth          == <<"d","e","p","t","h">>
n_block          == <<"b","l","o","c","k">>
n_pipe           == <<"p","i","p","e">>
n_pipe_in        == <<"p","i","p","e","_","i","n">>
n_pipe_out       == <<"p","i","p","e","_","o","u","t">>
n_pipe_unrotated == <<"p","i","p","e","_","u","n","r","o","t","a","t","e","d">>
n_cell_value     == <<"c","e","l","l","_","v","a","l","u","e">>
n_solved         == <<"s","o","l","v","e","d">>

-----------------------------------------------------------------------------
(* The engine: candidate models of each grounded step.  A model is the     *)
(* list model.symbols(atoms=True).                                         *)

Models(step) ==
    CASE step = "init"           -> { <<Atom(n_width, <<2>>)>> }
      [] step = "block_size_gen" -> { <<>> }
      [] step = "block_gen"      -> { <<Atom(n_block, <<1, 1>>)>>,
                                      <<Atom(n_block, <<>>), Atom(n_cell_value, <<1>>)>> }
      [] step = "pipe_gen"       -> { <<Atom(n_pipe_unrotated, <<1>>)>> }
      [] step = "rotation"       -> { <<Atom(n_pipe, <<1, 2>>), Atom(n_pipe_in, <<1>>)>> }
      [] step = "base"           -> { <<Atom(n_solved, <<>>)>> }

-----------------------------------------------------------------------------
(* Callbacks *)

FactStr(a) == SymbolStr(a) \o <<c_dot>>

\* [str(atom) + "." for atom in model.symbols(atoms=True)]
FactStrs(model) == [k \in 1..Len(model) |-> FactStr(model[k])]

collect_model_replacing(fs, model) == FactStrs(model)

collect_model_prepending(fs, model) == FactStrs(model) \o fs

\* collect_model: the new value of `facts`
collect_model(fs, model) == fs \o FactStrs(model)

AddDot(s) == s \o <<c_dot>>

\* print_model: the text handed to print()
print_model(mod, model) ==
    LET atoms == Split(ModelStr(model), c_sp) IN
    IF mod = "generator2"
    THEN Join(<<c_nl>>, [k \in 1..Len(atoms) |-> AddDot(atoms[k])])
    ELSE Join(<<c_sp>>, atoms)

-----------------------------------------------------------------------------
(* run_generator: the solve_step statements of each program, in order *)

StageSpec(s, rf, par, withParams) ==
    [step |-> s, rand_freq |-> rf, parallel |-> par, parameters |-> withParams]

Stages(mod) ==
    IF mod = "generator2"
    THEN << StageSpec("init",           "0", 1,  TRUE),
            StageSpec("block_size_gen", "1", 1,  FALSE),
            StageSpec("block_gen",      "1", 11, FALSE),
            StageSpec("pipe_gen",       "1", 11, FALSE),
            StageSpec("rotation",       "1", 11, FALSE) >>
    ELSE << StageSpec("block_size_gen", "1",   1,  TRUE),
            StageSpec("block_gen",      "0.5", 11, FALSE),
            StageSpec("pipe_gen",       "1",   11, FALSE),
            StageSpec("rotation",       "1",   11, FALSE) >>

NumStages == Len(Stages(module))

LastArgDropped(i) == FALSE

\* last=print is passed on the rotation statement only; elsewhere last=False
LastArg(i) == IF i = NumStages THEN printArg ELSE FALSE

\* secrets.randbelow(2**31): the values the model draws from
randbelow == {1, SeedMax}

\* the height, width and depth both programs run with by default
Dims == { <<3, 3, 3>> }

ControlSeedUnset == None

\* the --seed option of clingo.Control in solve_step
ControlSeed == seed

FactsBlockWithoutLast(fs) ==
    Join(<<c_nl>>, IF fs = <<>> THEN <<>> ELSE SubSeq(fs, 1, Len(fs) - 1))

\* the text of the "facts" block added by ctl.add
FactsBlock(fs) == Join(<<c_nl>>, fs)

NextStageSkipping(i) == i + 2

\* the statement after the i-th solve_step statement
NextStage(i) == i + 1

NewFactsKept == facts

\* facts = [] at the top of run_generator
NewFacts == <<>>

\* benchmark.py is not running
BenchOff ==
    /\ args = <<>>
    /\ bpc = "off"
    /\ h = 0 /\ w = 0 /\ d = 0 /\ count = 0
    /\ triples = <<>>
    /\ ti = 0 /\ run_idx = 0
    /\ rows = <<>>
    /\ solverRows = <<>>
    /\ factsIter = <<0, 0>>
    /\ validated = <<>>

Init ==
    /\ module \in {"generator2", "optimized-generator"}
    /\ facts = <<>>
    /\ seed = None
    /\ pc = "idle"
    /\ stage = 0
    /\ printArg = FALSE
    /\ dims = <<0, 0, 0>>
    /\ calls = <<>>
    /\ runs = 0
    /\ seedDraws = 0
    /\ stale = FALSE
    /\ lastOp = "none"
    /\ filtered = <<>>
    /\ solverOut = <<>>
    /\ threads = <<>>
    /\ BenchOff

\* run_generator, up to its first solve_step statement
RunGenerator ==
    /\ pc = "idle"
    /\ runs < MaxRuns
    /\ \E hwd \in Dims, p \in BOOLEAN, r \in randbelow :
          /\ dims' = hwd
          /\ printArg' = p
          /\ seed' = r
    /\ facts' = NewFacts
    /\ seedDraws' = seedDraws + 1
    /\ runs' = runs + 1
    /\ stale' = (facts # <<>>)
    /\ calls' = <<>>
    /\ stage' = 1
    /\ pc' = "ready"
    /\ lastOp' = "run_generator"
    /\ filtered' = <<>>
    /\ solverOut' = <<>>
    /\ UNCHANGED <<module, threads, benchVars>>

\* solve_step, from its entry to the call of ctl.solve
SolveStepBegin ==
    /\ pc = "ready"
    /\ LET sp == Stages(module)[stage] IN
       calls' = Append(calls,
                  [ step       |-> sp.step,
                    rand_freq  |-> sp.rand_freq,
                    parallel   |-> sp.parallel,
                    seed       |-> ControlSeed,
                    parameters |-> IF sp.parameters THEN dims ELSE <<>>,
                    last       |-> LastArg(stage),
                    block      |-> FactsBlock(facts),
                    pre        |-> facts,
                    models     |-> <<>>,
                    printed    |-> <<>>,
                    returned   |-> FALSE,
                    ret        |-> "None",
                    post       |-> <<>> ])
    /\ pc' = "solving"
    /\ UNCHANGED <<module, facts, seed, stage, printArg, dims, runs, seedDraws,
                   stale, lastOp, filtered, solverOut>>
    /\ UNCHANGED <<threads, benchVars>>

\* the engine finds a model during ctl.solve and calls on_model
OnModel ==
    /\ pc = "solving"
    /\ Len(calls[stage].models) < MaxModels
    /\ \E m \in Models(calls[stage].step) :
          /\ facts' = IF calls[stage].last THEN facts ELSE collect_model(facts, m)
          /\ calls' = [calls EXCEPT
                         ![stage].models = Append(@, m),
                         ![stage].printed =
                             IF calls[stage].last
                             THEN Append(@, print_model(module, m))
                             ELSE @]
    /\ UNCHANGED <<module, seed, pc, stage, printArg, dims, runs, seedDraws,
                   stale, lastOp, filtered, solverOut>>
    /\ UNCHANGED <<threads, benchVars>>

SolveReturnAborting ==
    /\ pc = "solving"
    /\ calls' = [calls EXCEPT ![stage].returned = TRUE, ![stage].post = facts]
    /\ IF stage < NumStages /\ calls[stage].models # <<>>
       THEN /\ stage' = NextStage(stage)
            /\ pc' = "ready"
       ELSE /\ stage' = 0
            /\ pc' = "idle"
    /\ UNCHANGED <<module, facts, seed, printArg, dims, runs, seedDraws,
                   stale, lastOp, filtered, solverOut>>
    /\ UNCHANGED <<threads, benchVars>>

\* ctl.solve returns, solve_step returns None, run_generator moves on
SolveReturn ==
    /\ pc = "solving"
    /\ calls' = [calls EXCEPT ![stage].returned = TRUE, ![stage].post = facts]
    /\ IF stage < NumStages
       THEN /\ stage' = NextStage(stage)
            /\ pc' = "ready"
       ELSE /\ stage' = 0
            /\ pc' = "idle"
    /\ UNCHANGED <<module, facts, seed, printArg, dims, runs, seedDraws,
                   stale, lastOp, filtered, solverOut>>
    /\ UNCHANGED <<threads, benchVars>>

-----------------------------------------------------------------------------
(* Validation *)

SolverFilter ==
    <<n_width, n_height, n_depth, n_block, n_pipe, n_pipe_in, n_pipe_out>>

WithoutPipesFilter == <<n_width, n_height, n_depth, n_block>>

\* any(item.startswith(f"{f}(") for f in filter)
Matches(item, filter) ==
    \E i \in 1..Len(filter) : StartsWith(item, filter[i] \o <<c_open>>)

FilterFactsFromSecond(fs, filter) ==
    LET keep(item) == Matches(item, filter) IN
    IF fs = <<>> THEN <<>> ELSE SelectSeq(Tail(fs), keep)

\* [item for item in facts if any(...)]
FilterFacts(fs, filter) ==
    LET keep(item) == Matches(item, filter) IN SelectSeq(fs, keep)

\* the models the engine reports during the validation solve
SolverRuns ==
    UNION { [1..n -> Models("base")] : n \in 0..MaxModels }

ValidateStoring(name, filter) ==
    /\ pc = "idle"
    /\ filtered' = FilterFacts(facts, filter)
    /\ facts' = filtered'
    /\ \E p \in BOOLEAN :
          IF p
          THEN \E ms \in SolverRuns :
                  solverOut' = [i \in 1..Len(ms) |-> print_model(module, ms[i])]
          ELSE solverOut' = <<>>
    /\ lastOp' = name
    /\ UNCHANGED <<module, seed, pc, stage, printArg, dims, calls, runs,
                   seedDraws, stale>>
    /\ UNCHANGED <<threads, benchVars>>

\* run_solver and run_solver_without_pipes share their body up to the
\* program and the filter list.  With print=False the outcome of ctl.solve()
\* is discarded, so a satisfiable and an unsatisfiable pass end alike.
Validate(name, filter) ==
    /\ pc = "idle"
    /\ filtered' = FilterFacts(facts, filter)
    /\ \E p \in BOOLEAN :
          IF p
          THEN \E ms \in SolverRuns :
                  solverOut' = [i \in 1..Len(ms) |-> print_model(module, ms[i])]
          ELSE solverOut' = <<>>
    /\ lastOp' = name
    /\ UNCHANGED <<module, facts, seed, pc, stage, printArg, dims, calls, runs,
                   seedDraws, stale>>
    /\ UNCHANGED <<threads, benchVars>>

run_solver == Validate("run_solver", SolverFilter)

run_solver_without_pipes ==
    /\ module = "optimized-generator"
    /\ Validate("run_solver_without_pipes", WithoutPipesFilter)

Next ==
    \/ RunGenerator
    \/ SolveStepBegin
    \/ OnModel
    \/ SolveReturn
    \/ run_solver
    \/ run_solver_without_pipes

Spec == Init /\ [][Next]_vars

-----------------------------------------------------------------------------
(* Two run_generator calls of generator2 in one process, as a harness that *)
(* runs trials concurrently would make them.  Both work on the module      *)
(* globals `facts` and `seed`; they interleave between solve_step calls,   *)
(* so one solve_step is one step here.  A solve reports no model or one.   *)
(* The two calls are alike, so "a" is taken to be the one that starts      *)
(* first; the history of a call is dropped when the call returns.          *)

Threads == {"a", "b"}

\* what the engine reports during one solve of a step
SolveRuns(step) == {<<>>} \cup { <<m>> : m \in Models(step) }

RECURSIVE CollectAll(_, _)
\* the store after collect_model has been called with each model of ms
CollectAll(fs, ms) ==
    IF ms = <<>> THEN fs ELSE CollectAll(collect_model(fs, Head(ms)), Tail(ms))

ParInit ==
    /\ module = "generator2"
    /\ facts = <<>>
    /\ seed = None
    /\ pc = "idle"
    /\ stage = 0
    /\ printArg = FALSE
    /\ dims = <<0, 0, 0>>
    /\ calls = <<>>
    /\ runs = 0
    /\ seedDraws = 0
    /\ stale = FALSE
    /\ lastOp = "none"
    /\ filtered = <<>>
    /\ solverOut = <<>>
    /\ threads = [t \in Threads |->
                    [pc |-> "idle", stage |-> 0, drawn |-> None, calls |-> <<>>]]
    /\ BenchOff

\* run_generator in thread t, up to its first solve_step statement
ParRunGenerator(t) ==
    /\ threads[t].pc = "idle"
    /\ t = "b" => threads["a"].pc # "idle"
    /\ facts' = NewFacts
    /\ \E r \in randbelow :
          /\ seed' = r
          /\ threads' = [threads EXCEPT ![t] =
                           [pc |-> "ready", stage |-> 1, drawn |-> r, calls |-> <<>>]]
    /\ seedDraws' = seedDraws + 1
    /\ runs' = runs + 1
    /\ UNCHANGED <<module, pc, stage, printArg, dims, calls, stale, lastOp,
                   filtered, solverOut, benchVars>>

\* one solve_step statement of thread t, from call to return
ParSolveStep(t) ==
    /\ threads[t].pc = "ready"
    /\ LET i  == threads[t].stage
           sp == Stages(module)[i]
       IN \E ms \in SolveRuns(sp.step) :
             /\ facts' = IF LastArg(i) THEN facts ELSE CollectAll(facts, ms)
             /\ threads' = [threads EXCEPT ![t] =
                   IF i < NumStages
                   THEN [@ EXCEPT
                           !.calls = Append(@, [ step   |-> sp.step,
                                                 seed   |-> ControlSeed,
                                                 last   |-> LastArg(i),
                                                 pre    |-> facts,
                                                 models |-> ms ]),
                           !.stage = NextStage(i)]
                   ELSE [pc |-> "done", stage |-> 0, drawn |-> @.drawn,
                         calls |-> <<>>]]
    /\ UNCHANGED <<module, seed, pc, stage, printArg, dims, calls, runs,
                   seedDraws, stale, lastOp, filtered, solverOut, benchVars>>

ParNext ==
    \E t \in Threads :
        \/ ParRunGenerator(t)
        \/ ParSolveStep(t)

SpecPar == ParInit /\ [][ParNext]_vars

-----------------------------------------------------------------------------
(* benchmark.py: progressive_triples and the sweep of main.  The elapsed   *)
(* seconds of a row are a measurement and are left out of the rows.  A     *)
(* value of args.steps is <<>> for None and <<n>> for the integer n;       *)
(* args.program is TRUE when --program was given.  --max-dim is taken to   *)
(* be given.                                                               *)

ArgsOf(maxs, stepss, starts, reps, modes) ==
    [max_dim : maxs, steps : stepss, start_dim : starts, repeats : reps,
     genpy : modes, program : modes, solve : modes]

\* command lines of the sweep
BenchArgs == ArgsOf({0, 3}, {<<>>, <<2>>}, {-2, 2}, {1, 2}, BOOLEAN)

\* arguments of progressive_triples called on its own
TriplesArgs ==
    ArgsOf(-3..4, {<<>>} \cup { <<n>> : n \in 0..4 }, -3..3, {1}, {FALSE})

Broken == <<>>

BumpFirst(t) ==
    IF t[1] = t[2] /\ t[2] = t[3] THEN <<t[1] + 1, t[2], t[3]>>
    ELSE IF t[2] = t[3] /\ t[1] < t[2] THEN <<t[1] + 1, t[2], t[3]>>
    ELSE IF t[1] = t[2] /\ t[2] < t[3] THEN <<t[1], t[2] + 1, t[3]>>
    ELSE Broken

\* the if/elif chain of progressive_triples on <<h, w, d>>
Bump(t) ==
    IF t[1] = t[2] /\ t[2] = t[3] THEN <<t[1], t[2], t[3] + 1>>
    ELSE IF t[2] = t[3] /\ t[1] < t[2] THEN <<t[1] + 1, t[2], t[3]>>
    ELSE IF t[1] = t[2] /\ t[2] < t[3] THEN <<t[1], t[2] + 1, t[3]>>
    ELSE Broken

\* the while condition of progressive_triples
InRange == h <= args.max_dim /\ w <= args.max_dim /\ d <= args.max_dim

RowSummed(t, run) ==
    [height |-> t[1], width |-> t[2], depth |-> t[3], run |-> run,
     size |-> t[1] + t[2] + t[3]]

\* the row append_csv writes for triple t
Row(t, run) ==
    [height |-> t[1], width |-> t[2], depth |-> t[3], run |-> run,
     size |-> t[1] * t[2] * t[3]]

RECURSIVE GeneratedStores(_, _)
\* the stores run_generator(h, w, d) can leave when it runs its solve_step
\* statements from the i-th on, starting with store fs
GeneratedStores(i, fs) ==
    IF i > NumStages THEN {fs}
    ELSE UNION { GeneratedStores(NextStage(i),
                                 IF LastArg(i) THEN fs ELSE CollectAll(fs, ms)) :
                 ms \in SolveRuns(Stages(module)[i].step) }

PipelineIdle ==
    /\ module = "generator2"
    /\ facts = <<>>
    /\ seed = None
    /\ pc = "idle"
    /\ stage = 0
    /\ printArg = FALSE
    /\ dims = <<0, 0, 0>>
    /\ calls = <<>>
    /\ runs = 0
    /\ seedDraws = 0
    /\ stale = FALSE
    /\ lastOp = "none"
    /\ filtered = <<>>
    /\ solverOut = <<>>
    /\ threads = <<>>

BenchInit ==
    /\ PipelineIdle
    /\ args \in BenchArgs
    /\ bpc = "start"
    /\ h = 0 /\ w = 0 /\ d = 0 /\ count = 0
    /\ triples = <<>>
    /\ ti = 0 /\ run_idx = 0
    /\ rows = <<>>
    /\ solverRows = <<>>
    /\ factsIter = <<0, 0>>
    /\ validated = <<>>

\* progressive_triples(max_dim, steps, start_dim) has just been entered
TriplesInit ==
    /\ PipelineIdle
    /\ args \in TriplesArgs
    /\ bpc = "triples"
    /\ h = args.start_dim /\ w = args.start_dim /\ d = args.start_dim
    /\ count = 0
    /\ triples = <<>>
    /\ ti = 0 /\ run_idx = 0
    /\ rows = <<>>
    /\ solverRows = <<>>
    /\ factsIter = <<0, 0>>
    /\ validated = <<>>

\* main, up to the call of progressive_triples
MainStart ==
    /\ bpc = "start"
    /\ IF args.program \/ args.genpy
       THEN /\ bpc' = "triples"
            /\ h' = args.start_dim /\ w' = args.start_dim /\ d' = args.start_dim
       ELSE /\ bpc' = "done"
            /\ UNCHANGED <<h, w, d>>
    /\ UNCHANGED <<pipelineVars, threads, args, count, triples, ti, run_idx, rows,
                   solverRows, factsIter, validated>>

\* one pass of the while loop of progressive_triples
ProgressiveStep ==
    /\ bpc = "triples"
    /\ InRange
    /\ triples' = Append(triples, <<h, w, d>>)
    /\ count' = count + 1
    /\ IF args.steps # <<>> /\ count + 1 >= args.steps[1]
       THEN /\ bpc' = "listed"
            /\ UNCHANGED <<h, w, d>>
       ELSE LET n == Bump(<<h, w, d>>) IN
            IF n = Broken
            THEN /\ bpc' = "AssertionError"
                 /\ UNCHANGED <<h, w, d>>
            ELSE /\ bpc' = "triples"
                 /\ h' = n[1] /\ w' = n[2] /\ d' = n[3]
    /\ UNCHANGED <<pipelineVars, threads, args, ti, run_idx, rows, solverRows,
                   factsIter, validated>>

\* the while condition fails
ProgressiveStop ==
    /\ bpc = "triples"
    /\ ~InRange
    /\ bpc' = "listed"
    /\ UNCHANGED <<pipelineVars, threads, args, h, w, d, count, triples, ti,
                   run_idx, rows, solverRows, factsIter, validated>>

\* main enters its two for loops
MainLoopStart ==
    /\ bpc = "listed"
    /\ bpc' = IF triples = <<>> THEN "done" ELSE "loop"
    /\ ti' = 1
    /\ run_idx' = 1
    /\ UNCHANGED <<pipelineVars, threads, args, h, w, d, count, triples, rows,
                   solverRows, factsIter, validated>>

\* main: run_gen2 or run_clingo of one (triple, run_idx), then append_csv
MainGenerate ==
    /\ bpc = "loop"
    /\ IF args.genpy
       THEN /\ \E r \in randbelow : seed' = r
            /\ facts' \in GeneratedStores(1, NewFacts)
            /\ dims' = triples[ti]
            /\ runs' = runs + 1
            /\ seedDraws' = seedDraws + 1
            /\ factsIter' = <<ti, run_idx>>
       ELSE UNCHANGED <<facts, seed, dims, runs, seedDraws, factsIter>>
    /\ rows' = Append(rows, Row(triples[ti], run_idx))
    /\ bpc' = "timed"
    /\ UNCHANGED <<module, pc, stage, printArg, calls, stale, lastOp, filtered,
                   solverOut, threads, args, h, w, d, count, triples, ti, run_idx,
                   solverRows, validated>>

\* main: run_solver under --solve, then the loop headers
MainSolve ==
    /\ bpc = "timed"
    /\ IF args.solve
       THEN /\ filtered' = FilterFacts(facts, SolverFilter)
            /\ solverRows' = Append(solverRows, Row(triples[ti], run_idx))
            /\ validated' = [iter |-> <<ti, run_idx>>, from |-> factsIter,
                             input |-> filtered']
       ELSE UNCHANGED <<filtered, solverRows, validated>>
    /\ IF run_idx < args.repeats
       THEN /\ run_idx' = run_idx + 1
            /\ bpc' = "loop"
            /\ UNCHANGED ti
       ELSE IF ti < Len(triples)
       THEN /\ ti' = ti + 1
            /\ run_idx' = 1
            /\ bpc' = "loop"
       ELSE /\ bpc' = "done"
            /\ UNCHANGED <<ti, run_idx>>
    /\ UNCHANGED <<module, facts, seed, pc, stage, printArg, dims, calls, runs,
                   seedDraws, stale, lastOp, solverOut, threads, args, h, w, d,
                   count, triples, rows, factsIter>>

TriplesNext ==
    \/ ProgressiveStep
    \/ ProgressiveStop

BenchNext ==
    \/ MainStart
    \/ ProgressiveStep
    \/ ProgressiveStop
    \/ MainLoopStart
    \/ MainGenerate
    \/ MainSolve

SpecTriples == TriplesInit /\ [][TriplesNext]_vars

SpecBench == BenchInit /\ [][BenchNext]_vars

-----------------------------------------------------------------------------
(* Properties *)

RunReturned == pc = "idle" /\ runs > 0

\* the facts of the models the engine reported to one invocation
Merged(c) == Flatten([k \in 1..Len(c.models) |-> FactStrs(c.models[k])])

\* the facts an invocation hands back for the store; a last=True invocation
\* renders its models and hands back nothing
Returned(c) == IF c.last THEN <<>> ELSE Merged(c)

ReturnedUpTo(n) == Flatten([i \in 1..n |-> Returned(calls[i])])

MergedUpTo(n) == Flatten([i \in 1..n |-> Merged(calls[i])])

\* what the store gained during one invocation
Gained(c) == SubSeq(c.post, Len(c.pre) + 1, Len(c.post))

\* everything the caller of solve_step can look at afterwards
Observed(c) == <<c.ret, Gained(c), c.printed>>

\* the predicate name of a fact: the text before "(", or before the final "."
FunctorName(item) == Head(Split(Head(Split(item, c_open)), c_dot))

InList(x, xs) == \E i \in 1..Len(xs) : xs[i] = x

Validators == {"run_solver", "run_solver_without_pipes"}

FilterOf(op) == IF op = "run_solver" THEN SolverFilter ELSE WithoutPipesFilter

\* C1: in every run, solve_step is invoked once per stage in the order of the
\* stage list, an invocation starts only after all earlier ones returned, and
\* a run that returned has invoked every stage.
C1_StagesInOrder ==
    /\ Len(calls) <= NumStages
    /\ \A i \in 1..Len(calls) : calls[i].step = Stages(module)[i].step
    /\ \A i \in 1..(Len(calls) - 1) : calls[i].returned
    /\ pc = "ready" => Len(calls) = stage - 1
    /\ pc = "solving" => Len(calls) = stage /\ ~calls[stage].returned
    /\ RunReturned => /\ Len(calls) = NumStages
                      /\ \A i \in 1..Len(calls) : calls[i].returned

C1_Witness ==
    /\ RunReturned
    /\ module = "generator2"
    /\ Len(calls) = 5
    /\ calls[5].step = "rotation"

\* C2: after run_generator returns, the store is the concatenation, in stage
\* order, of the facts handed back by the invocations that found a model, and
\* it is empty when no stage found a model.
C2_StoreIsConcatenation ==
    RunReturned =>
        /\ facts = ReturnedUpTo(Len(calls))
        /\ (\A i \in 1..Len(calls) : calls[i].models = <<>>) => facts = <<>>

C2_Witness ==
    /\ RunReturned
    /\ Cardinality({i \in 1..Len(calls) : Returned(calls[i]) # <<>>}) >= 2
    /\ \E i \in 1..Len(calls) : calls[i].models = <<>>

\* C3 as stated: after every run the store holds only the facts of the stages
\* before rotation.
C3_RotationNeverMerges ==
    RunReturned => facts = MergedUpTo(NumStages - 1)

\* C3 amended: with print=True rotation renders each model it finds and the
\* store holds only the facts of the stages before it; with print=False
\* rotation prints nothing and its facts are merged like any other stage's.
C3_RotationMergesUnlessPrint ==
    RunReturned =>
        IF printArg
        THEN /\ facts = MergedUpTo(NumStages - 1)
             /\ Len(calls[NumStages].printed) = Len(calls[NumStages].models)
        ELSE /\ facts = MergedUpTo(NumStages)
             /\ calls[NumStages].printed = <<>>

C3_Witness ==
    /\ RunReturned
    /\ printArg
    /\ module = "optimized-generator"
    /\ calls[NumStages].models # <<>>
    /\ \A i \in 1..3 : Len(calls[i].models) = 1

\* C4: an invocation that found no model and one that found a model of zero
\* atoms never look the same to the caller of solve_step.
C4_NoModelIsExplicit ==
    \A i, j \in 1..Len(calls) :
        ( /\ calls[i].returned /\ calls[j].returned
          /\ calls[i].models = <<>>
          /\ calls[j].models # <<>>
          /\ Merged(calls[j]) = <<>> )
        => Observed(calls[i]) # Observed(calls[j])

\* C5: once a non-terminal stage has returned without a model the run is over:
\* no later stage is invoked and the store is as that stage found it.
C5_NoModelAbortsRun ==
    \A i \in 1..Len(calls) :
        (calls[i].returned /\ ~calls[i].last /\ calls[i].models = <<>>)
        => /\ pc = "idle"
           /\ Len(calls) = i
           /\ facts = calls[i].pre

\* C6: every run starts from an empty store: its first stage is fed no fact,
\* and at any moment the store holds the facts merged in this run and no
\* others, whatever earlier runs left behind.
C6_StoreResetPerRun ==
    runs > 0 =>
        /\ (pc = "ready" /\ stage = 1) => facts = <<>>
        /\ Len(calls) >= 1 => calls[1].pre = <<>> /\ calls[1].block = <<>>
        /\ facts = ReturnedUpTo(Len(calls))

C6_Witness ==
    /\ stale
    /\ runs = 2
    /\ RunReturned
    /\ facts # <<>>

\* C7: the seed is drawn once per run, lies in [0, 2^31), and every
\* invocation of the run is configured with it.
C7_OneSeedPerRun ==
    /\ seedDraws = runs
    /\ runs = 0 => seed = None
    /\ runs > 0 => seed >= 0 /\ seed <= SeedMax
    /\ \A i \in 1..Len(calls) : calls[i].seed = seed

C7_Witness ==
    /\ runs = 2
    /\ seed = SeedMax
    /\ Len(calls) >= 2
    /\ pc = "solving"

\* C8: a validation pass keeps exactly the facts whose predicate name is one
\* of the listed names, in store order.
C8_FilterByFunctor ==
    lastOp \in Validators =>
        filtered = SelectSeq(facts,
                       LAMBDA item : InList(FunctorName(item), FilterOf(lastOp)))

\* C9: filtering an already filtered store with the same list changes nothing.
C9_FilterIdempotent ==
    \A flt \in {SolverFilter, WithoutPipesFilter} :
        FilterFacts(FilterFacts(facts, flt), flt) = FilterFacts(facts, flt)

C9_Witness ==
    /\ lastOp = "run_solver"
    /\ filtered # <<>>
    /\ Len(filtered) < Len(facts)
    /\ Len(filtered) >= 2

\* C10: a validation pass changes neither the store nor the seed, and a
\* repeated pass of the same kind computes the same filtered input.
C10_ValidationFrame ==
    [][ (pc = "idle" /\ pc' = "idle" /\ lastOp' \in Validators)
        => /\ facts' = facts
           /\ seed' = seed
           /\ lastOp = lastOp' => filtered' = filtered ]_vars

C10_Witness ==
    /\ lastOp \in Validators
    /\ facts # <<>>
    /\ seed # None
    /\ Len(filtered) < Len(facts)
    /\ solverOut # <<>>

IsPrefix(xs, ys) == Len(xs) <= Len(ys) /\ SubSeq(ys, 1, Len(xs)) = xs

\* C13: stage k is fed exactly the store as the merges of stages 1..k-1 left
\* it, and the facts of stage k-1 are in the store before stage k is invoked.
C13_FedCurrentStore ==
    \A k \in 1..Len(calls) :
        /\ calls[k].block = Join(<<c_nl>>, calls[k].pre)
        /\ k = 1 => calls[k].pre = <<>>
        /\ k > 1 => /\ calls[k - 1].post = calls[k].pre
                    /\ calls[k].pre = calls[k - 1].pre \o Returned(calls[k - 1])

C13_Witness ==
    /\ pc = "solving"
    /\ stage >= 3
    /\ Len(calls[stage].pre) >= 2
    /\ \E i \in 1..(stage - 1) : calls[i].models = <<>>

\* C14: one invocation writes the store at most once, with the atoms of the
\* first model only, and never while the solve is still running.
C14_SingleWrite ==
    \A i \in 1..Len(calls) :
        IF calls[i].returned
        THEN Gained(calls[i]) =
                IF calls[i].last \/ calls[i].models = <<>>
                THEN <<>>
                ELSE FactStrs(calls[i].models[1])
        ELSE facts = calls[i].pre

\* C15: between the reset and the return of run_generator every step keeps
\* the store's contents as a prefix of its new contents.
C15_AppendOnly ==
    [][ pc # "idle" => IsPrefix(facts, facts') ]_vars

C15_Witness ==
    /\ pc = "solving"
    /\ calls[stage].pre # <<>>
    /\ Len(facts) > Len(calls[stage].pre)
    /\ \E i, j \in 1..Len(facts) : i # j /\ facts[i] = facts[j]

\* C16: a non-terminal invocation that found no model leaves the store as it
\* was, and run_generator goes on to the next stage with that store.
C16_NoModelContinues ==
    \A i \in 1..Len(calls) :
        (calls[i].returned /\ ~calls[i].last /\ calls[i].models = <<>>)
        => /\ calls[i].post = calls[i].pre
           /\ i < NumStages =>
                 IF Len(calls) = i
                 THEN pc = "ready" /\ stage = i + 1 /\ facts = calls[i].pre
                 ELSE /\ calls[i + 1].step = Stages(module)[i + 1].step
                      /\ calls[i + 1].pre = calls[i].pre

C16_Witness ==
    \E i \in 1..(Len(calls) - 1) :
        /\ calls[i].returned /\ ~calls[i].last /\ calls[i].models = <<>>
        /\ calls[i].pre # <<>>
        /\ calls[i + 1].pre = calls[i].pre

\* the facts thread t merged in its first n invocations
OwnMerges(t, n) ==
    Flatten([i \in 1..n |-> IF threads[t].calls[i].last THEN <<>>
                            ELSE Merged(threads[t].calls[i])])

\* C11: with two runs interleaved between stages, every stage of a run is fed
\* exactly the facts that run merged before it and is configured with the
\* seed that run drew, and the store always holds what a running run merged.
C11_RunsIndependent ==
    \A t \in Threads :
        /\ \A i \in 1..Len(threads[t].calls) :
              /\ threads[t].calls[i].pre = OwnMerges(t, i - 1)
              /\ threads[t].calls[i].seed = threads[t].drawn
        /\ threads[t].pc = "ready" =>
              Len(facts) >= Len(OwnMerges(t, Len(threads[t].calls)))

Min3(t) ==
    IF t[1] <= t[2] /\ t[1] <= t[3] THEN t[1]
    ELSE IF t[2] <= t[3] THEN t[2] ELSE t[3]

SizesOk(rs) ==
    \A i \in 1..Len(rs) :
        /\ rs[i].size = rs[i].height * rs[i].width * rs[i].depth
        /\ i > 1 => rs[i - 1].size <= rs[i].size

\* C12: in a sweep every yielded triple has height <= width <= depth, every
\* row's size is height * width * depth, and the rows of each file are
\* non-decreasing in size.
C12_SweepSizes ==
    /\ \A i \in 1..Len(triples) :
          triples[i][1] <= triples[i][2] /\ triples[i][2] <= triples[i][3]
    /\ SizesOk(rows)
    /\ SizesOk(solverRows)

C12_Witness ==
    /\ bpc = "done"
    /\ args.start_dim < 0
    /\ args.repeats = 2
    /\ Len(rows) >= 8
    /\ Len(solverRows) = Len(rows)
    /\ rows[1].size < 0
    /\ rows[Len(rows)].size > 0

\* C17: from one yielded triple to the next exactly one dimension grows, by
\* exactly 1, and it is one that held the minimum of the triple; the
\* "Broken ordering" branch is never taken.
C17_BumpSmallest ==
    /\ bpc # "AssertionError"
    /\ \A i \in 1..(Len(triples) - 1) :
          \E k \in 1..3 :
              /\ triples[i + 1][k] = triples[i][k] + 1
              /\ triples[i][k] = Min3(triples[i])
              /\ \A j \in (1..3) \ {k} : triples[i + 1][j] = triples[i][j]

C17_Witness ==
    /\ bpc = "listed"
    /\ args.start_dim < 0
    /\ Len(triples) >= 7
    /\ ~InRange

\* C18: progressive_triples yields only triples within max_dim, at most
\* `steps` of them when steps is given, none when start_dim > max_dim, and
\* without steps it ends only when a dimension has passed max_dim.
C18_TriplesBounded ==
    /\ \A i \in 1..Len(triples) :
          \A k \in 1..3 : triples[i][k] <= args.max_dim
    /\ args.steps # <<>> => Len(triples) <= args.steps[1]
    /\ args.start_dim > args.max_dim => triples = <<>>
    /\ (bpc = "listed" /\ args.steps = <<>>) => ~InRange

\* C19: every validation pass of the main loop works on the store written by
\* the generation of its own (triple, run index) iteration.
C19_ValidatesOwnGeneration ==
    validated # <<>> =>
        /\ validated.from = validated.iter
        /\ validated.input = FilterFacts(facts, SolverFilter)

====
